---- MODULE Spec2Model ----
(***************************************************************************)
(* Model of src/renderer/app.tsx: the App component of the launcher.       *)
(*                                                                         *)
(* The component owns the React state (central, search, order, logData,    *)
(* config and the three browse-page preferences), the one-shot _onSearch   *)
(* flag, and the promise chain started in its constructor                  *)
(* (fetchPlatformFilenames -> addPlatforms -> fetchPlatforms ->            *)
(* onDataLoaded).  Each action below is one handler or callback of the     *)
(* class, run to completion (JavaScript is single threaded); setState is   *)
(* modelled as merging the partial state into this.state.                  *)
(***************************************************************************)
EXTENDS Integers, Sequences, FiniteSets, TLC

(***************************************************************************)
(* Bounds of the model.                                                    *)
(***************************************************************************)
\* Longest directory listing stage 1 resolves with.
MaxPlatforms == 2
\* Most games one platform file holds.
MaxGames == 5
\* Most search submissions in one run.
MaxSearches == 2
\* Most 'log-data-update' messages in flight from the main process.
MaxInFlight == 1

(***************************************************************************)
(* Values.                                                                 *)
(***************************************************************************)
\* An optional value (undefined | x) is a sequence of length 0 or 1.
None == <<>>
Some(x) == <<x>>

Range(s) == { s[i] : i \in 1..Len(s) }

\* File names are sequences of characters; "." is the only character that
\* matters to the code, so the other characters are whole words.
FileNames ==
  { <<"Flash", ".", "xml">>,
    <<"HTML5", ".", "xml">>,
    <<"Flash", ".", "old", ".", "xml">> }

\* A directory listing: distinct file names, in some order.
Listings ==
  { l \in UNION { [1..n -> FileNames] : n \in 0..MaxPlatforms } :
      \A i, j \in 1..Len(l) : i # j => l[i] # l[j] }

\* The configuration window.External.getConfigSync() returns.
Configs == { [flashpointPath |-> "C:/Flashpoint", useCustomTitlebar |-> FALSE] }

\* Browse page scale (in tenths), layout and extreme filter values.
GameScales == { 10, 15 }
BrowsePageLayouts == { "list", "grid" }
\* What the preferences file holds at startup: the defaults, or values
\* saved by an earlier run.
PreferencesData ==
  { [ browsePageGameScale |-> 10,
      browsePageLayout |-> "list",
      browsePageShowExtreme |-> FALSE ],
    [ browsePageGameScale |-> 15,
      browsePageLayout |-> "grid",
      browsePageShowExtreme |-> TRUE ] }

SearchEvents == { "search1", "search2" }
OrderEvents == { "orderBy1" }

\* A full log is a sequence of lines.
FullLogs == { <<"line1">>, <<"line2">>, <<"line1", "line2">> }

\* The one GameImageCollection object created in the constructor.
GameImagesRef == "gameImages"

\* The function this.onLogDataUpdate holds after the bind of the constructor.
BoundOnLogDataUpdate == "this.onLogDataUpdate"

VARIABLES
  state,                \* this.state
  _onSearch,            \* this._onSearch
  prefs,                \* window.External.preferences.data
  gameImages,           \* the GameImageCollection created in the constructor
  stage1,               \* promise of fetchPlatformFilenames
  stage2,               \* promise of fetchPlatforms
  platformFilenames,    \* the value stage 1 resolved with (closure variable)
  phase,                \* React lifecycle of the component
  rendered,             \* what the last render() returned
  ipcListeners,         \* listeners of onLogDataUpdate on 'log-data-update'
  ipcQueue,             \* 'log-data-update' messages in flight
  replayRequested,      \* resendLogDataUpdate() not yet answered by main
  call,                 \* the preference setter that is running, if any
  history               \* record of what has run (not program state)

vars == << state, _onSearch, prefs, gameImages, stage1, stage2,
           platformFilenames, phase, rendered, ipcListeners, ipcQueue,
           replayRequested, call, history >>

loadVars == << gameImages, stage1, stage2, platformFilenames >>
logVars == << ipcListeners, ipcQueue, replayRequested >>

(***************************************************************************)
(* Pure helpers.                                                           *)
(***************************************************************************)
\* String.prototype.split(sep): the pieces of s between the separators.
RECURSIVE SplitFrom(_, _, _)
SplitFrom(s, sep, cur) ==
  IF s = <<>> THEN << cur >>
  ELSE IF Head(s) = sep
       THEN << cur >> \o SplitFrom(Tail(s), sep, <<>>)
       ELSE SplitFrom(Tail(s), sep, Append(cur, Head(s)))

split(s, sep) == SplitFrom(s, sep, <<>>)

\* A mutant of PlatformNames: the last piece (the extension) is taken.
PlatformNamesLastPiece(filenames) ==
  [ i \in 1..Len(filenames) |->
      split(filenames[i], ".")[Len(split(filenames[i], "."))] ]

\* platformFilenames.map((platform) => platform.split('.')[0])
PlatformNames(filenames) ==
  [ i \in 1..Len(filenames) |-> split(filenames[i], ".")[1] ]

\* GameImageCollection.addPlatforms: registers the names; a known name is
\* not registered twice.
addPlatforms(images, platforms) ==
  [ images EXCEPT !.platforms = @ \cup Range(platforms) ]

\* The games one platform file holds, in file order.
GamesOf(filename, count) ==
  [ n \in 1..count |-> [ source |-> filename, n |-> n ] ]

\* LaunchboxData.fetchPlatforms: the games of every file (counts[i] of them
\* in filenames[i]), merged in the order of the names given.
RECURSIVE fetchPlatforms(_, _)
fetchPlatforms(filenames, counts) ==
  IF filenames = <<>> THEN <<>>
  ELSE GamesOf(Head(filenames), Head(counts))
         \o fetchPlatforms(Tail(filenames), Tail(counts))

\* A mutant of CollectionOrDefault: the collection is always the default.
CollectionAlwaysDefault(collection) == [ games |-> <<>> ]

\* collection || { games: [] }
CollectionOrDefault(collection) ==
  IF collection = None THEN [ games |-> <<>> ] ELSE collection[1]

\* this.setState(partial): the fields of partial replace those of this.state.
setState(partial) ==
  [ k \in DOMAIN state |-> IF k \in DOMAIN partial THEN partial[k] ELSE state[k] ]

(***************************************************************************)
(* Construction.                                                           *)
(***************************************************************************)
Init ==
  /\ prefs \in PreferencesData
  /\ \E config \in Configs :
       state = [ central |-> None,
                 search |-> None,
                 order |-> None,
                 logData |-> <<>>,
                 config |-> config,
                 gameScale |-> prefs.browsePageGameScale,
                 gameLayout |-> prefs.browsePageLayout,
                 showExtreme |-> prefs.browsePageShowExtreme,
                 useCustomTitlebar |-> config.useCustomTitlebar ]
  /\ _onSearch = FALSE
  /\ gameImages = [ platforms |-> {} ]
  /\ stage1 = "pending"
  /\ stage2 = "notStarted"
  /\ platformFilenames = <<>>
  /\ phase = "constructed"
  /\ rendered = None
  /\ ipcListeners = <<>>
  /\ ipcQueue = <<>>
  /\ replayRequested = FALSE
  /\ call = None
  /\ history = [ onDataLoaded |-> 0,
                 addPlatforms |-> 0,
                 fetchPlatformFilenames |-> 1,
                 fetchPlatforms |-> 0,
                 counts |-> <<>>,
                 parsedBeforeFailure |-> 0,
                 lastSet |-> [ gameScale |-> None,
                               gameLayout |-> None,
                               showExtreme |-> None ],
                 searches |-> 0,
                 overlapping |-> 0,
                 redirects |-> 0,
                 delivered |-> None,
                 deliveredBefore |-> None,
                 replaysDelivered |-> 0,
                 trace |-> << "fetchPlatformFilenames" >>,
                 loadedUnmounted |-> FALSE,
                 lastSearch |-> None,
                 droppedBeforeMount |-> FALSE,
                 droppedAfterUnmount |-> FALSE ]

(***************************************************************************)
(* The handlers of the class, as the state they leave in this.state.       *)
(***************************************************************************)
\* A mutant of onDataLoaded: the result is dropped when the component has
\* been unmounted.
onDataLoadedIfMounted(images, collection) ==
  IF phase = "unmounted" THEN state
  ELSE setState([ central |-> Some([ collection |-> CollectionOrDefault(collection),
                                     flashpointPath |-> state.config.flashpointPath,
                                     gameImages |-> images ]) ])

\* onDataLoaded(gameImages, collection?)
onDataLoaded(images, collection) ==
  setState([ central |-> Some([ collection |-> CollectionOrDefault(collection),
                                flashpointPath |-> state.config.flashpointPath,
                                gameImages |-> images ]) ])

\* A mutant of onLogDataUpdate: the snapshot is appended to the text.
onLogDataUpdateAppend(event, fullLog) ==
  setState([ logData |-> state.logData \o fullLog ])

\* onLogDataUpdate(event, fullLog)
onLogDataUpdate(event, fullLog) ==
  setState([ logData |-> fullLog ])

(***************************************************************************)
(* The load chain of the constructor.                                      *)
(***************************************************************************)
\* A mutant of Stage1Resolved: the games are fetched before the thumbnails
\* are prepared.
Stage1ResolvedFetchFirst ==
  /\ call = None
  /\ stage1 = "pending"
  /\ \E filenames \in Listings :
       /\ platformFilenames' = filenames
       /\ gameImages' = addPlatforms(gameImages, PlatformNames(filenames))
       /\ history' = [ history EXCEPT
                         !.addPlatforms = @ + 1,
                         !.fetchPlatforms = @ + 1,
                         !.trace = @ \o << "fetchPlatforms", "addPlatforms" >> ]
  /\ stage1' = "resolved"
  /\ stage2' = "pending"
  /\ UNCHANGED << call, state, _onSearch, prefs, phase, rendered, logVars >>

\* fetchPlatformFilenames(...).then((platformFilenames) => { ... })
Stage1Resolved ==
  /\ call = None
  /\ stage1 = "pending"
  /\ \E filenames \in Listings :
       /\ platformFilenames' = filenames
       /\ gameImages' = addPlatforms(gameImages, PlatformNames(filenames))
       /\ history' = [ history EXCEPT
                         !.addPlatforms = @ + 1,
                         !.fetchPlatforms = @ + 1,
                         !.trace = @ \o << "addPlatforms", "fetchPlatforms" >> ]
  /\ stage1' = "resolved"
  /\ stage2' = "pending"
  /\ UNCHANGED << call, state, _onSearch, prefs, phase, rendered, logVars >>

\* A mutant of Stage1Rejected: the failure is logged and nothing is set.
Stage1RejectedNoFallback ==
  /\ call = None
  /\ stage1 = "pending"
  /\ stage1' = "rejected"
  /\ UNCHANGED << call, state, history, _onSearch, prefs, gameImages, stage2,
                  platformFilenames, phase, rendered, logVars >>

\* A mutant of Stage1Rejected: the fallback goes on with stage 2 on the
\* names it has (none).
Stage1RejectedGoesOn ==
  /\ call = None
  /\ stage1 = "pending"
  /\ stage1' = "rejected"
  /\ stage2' = "pending"
  /\ state' = onDataLoaded(GameImagesRef, None)
  /\ history' = [ history EXCEPT !.onDataLoaded = @ + 1,
                    !.trace = Append(@, "onDataLoaded"),
                    !.loadedUnmounted = (phase = "unmounted"),
                                 !.fetchPlatforms = @ + 1 ]
  /\ UNCHANGED << call, _onSearch, prefs, gameImages,
                  platformFilenames, phase, rendered, logVars >>

\* fetchPlatformFilenames(...) ... .catch((error) => { ... }); the callback
\* of then() is taken not to throw, so this runs for a rejection of stage 1.
Stage1Rejected ==
  /\ call = None
  /\ stage1 = "pending"
  /\ stage1' = "rejected"
  /\ state' = onDataLoaded(GameImagesRef, None)
  /\ history' = [ history EXCEPT !.onDataLoaded = @ + 1,
                    !.trace = Append(@, "onDataLoaded"),
                    !.loadedUnmounted = (phase = "unmounted") ]
  /\ UNCHANGED << call, _onSearch, prefs, gameImages, stage2,
                  platformFilenames, phase, rendered, logVars >>

\* fetchPlatforms(...).then((collection) => { ... }); counts are the games
\* found in each platform file.
Stage2Resolved ==
  /\ call = None
  /\ stage2 = "pending"
  /\ stage2' = "resolved"
  /\ \E counts \in [ 1..Len(platformFilenames) -> 0..MaxGames ] :
       /\ state' = onDataLoaded(GameImagesRef,
                      Some([ games |-> fetchPlatforms(platformFilenames, counts) ]))
       /\ history' = [ history EXCEPT !.onDataLoaded = @ + 1,
                    !.trace = Append(@, "onDataLoaded"),
                    !.loadedUnmounted = (phase = "unmounted"),
                                      !.counts = counts ]
  /\ UNCHANGED << call, _onSearch, prefs, gameImages, stage1,
                  platformFilenames, phase, rendered, logVars >>

\* A mutant of Stage2Rejected: the failure is logged and nothing is set.
Stage2RejectedNoFallback ==
  /\ call = None
  /\ stage2 = "pending"
  /\ stage2' = "rejected"
  /\ UNCHANGED << call, state, history, _onSearch, prefs, gameImages, stage1,
                  platformFilenames, phase, rendered, logVars >>

\* A mutant of Stage2Rejected: the fetch of the games is tried again.
Stage2RejectedRetries ==
  /\ call = None
  /\ stage2 = "pending"
  /\ stage2' = "pending"
  /\ history' = [ history EXCEPT
                    !.fetchPlatforms = @ + 1,
                    !.trace = Append(@, "fetchPlatforms") ]
  /\ UNCHANGED << call, state, _onSearch, prefs, gameImages, stage1,
                  platformFilenames, phase, rendered, logVars >>

\* A mutant of Stage2Rejected: what parsed before the failure is kept.
Stage2RejectedKeepsPartial ==
  /\ call = None
  /\ stage2 = "pending"
  /\ stage2' = "rejected"
  /\ \E parsed \in 0..Len(platformFilenames) :
       /\ parsed < Len(platformFilenames) \/ parsed = 0
       /\ state' = onDataLoaded(GameImagesRef,
                      Some([ games |->
                        fetchPlatforms(SubSeq(platformFilenames, 1, parsed),
                                       [ i \in 1..parsed |-> 1 ]) ]))
       /\ history' = [ history EXCEPT !.onDataLoaded = @ + 1,
                    !.trace = Append(@, "onDataLoaded"),
                    !.loadedUnmounted = (phase = "unmounted"),
                                      !.parsedBeforeFailure = parsed ]
  /\ UNCHANGED << call, _onSearch, prefs, gameImages, stage1,
                  platformFilenames, phase, rendered, logVars >>

\* fetchPlatforms(...) ... .catch((error) => { ... }); parsed platform files
\* were read before the one that failed.
Stage2Rejected ==
  /\ call = None
  /\ stage2 = "pending"
  /\ stage2' = "rejected"
  /\ \E parsed \in 0..Len(platformFilenames) :
       /\ parsed < Len(platformFilenames) \/ parsed = 0
       /\ history' = [ history EXCEPT !.onDataLoaded = @ + 1,
                    !.trace = Append(@, "onDataLoaded"),
                    !.loadedUnmounted = (phase = "unmounted"),
                                      !.parsedBeforeFailure = parsed ]
  /\ state' = onDataLoaded(GameImagesRef, None)
  /\ UNCHANGED << call, _onSearch, prefs, gameImages, stage1,
                  platformFilenames, phase, rendered, logVars >>

(***************************************************************************)
(* Lifecycle and render.                                                   *)
(***************************************************************************)
\* EventEmitter.on(channel, listener): the listener is added at the end.
on(listeners, listener) == Append(listeners, listener)

\* EventEmitter.removeListener(channel, listener): the instance of the
\* listener added last is removed, if there is one.
removeListener(listeners, listener) ==
  LET at == { i \in 1..Len(listeners) : listeners[i] = listener }
  IN  IF at = {} THEN listeners
      ELSE LET last == CHOOSE i \in at : \A j \in at : j <= i
           IN  SubSeq(listeners, 1, last - 1)
                 \o SubSeq(listeners, last + 1, Len(listeners))

\* A mutant of componentDidMount: the replay is not requested.
componentDidMountNoReplay ==
  /\ call = None
  /\ phase = "rendered"
  /\ phase' = "mounted"
  /\ ipcListeners' = on(ipcListeners, BoundOnLogDataUpdate)
  /\ UNCHANGED << call, state, _onSearch, prefs, loadVars, rendered, ipcQueue,
                  replayRequested, history >>

\* componentDidMount(): runs once, after the first render.
componentDidMount ==
  /\ call = None
  /\ phase = "rendered"
  /\ phase' = "mounted"
  /\ ipcListeners' = on(ipcListeners, BoundOnLogDataUpdate)
  /\ replayRequested' = TRUE
  /\ UNCHANGED << call, state, _onSearch, prefs, loadVars, rendered, ipcQueue, history >>

\* A mutant of componentWillUnmount: the listener is left on the channel.
componentWillUnmountNoDetach ==
  /\ call = None
  /\ phase = "mounted"
  /\ phase' = "unmounted"
  /\ UNCHANGED << call, state, _onSearch, prefs, loadVars, rendered, logVars,
                  history >>

\* A mutant of componentWillUnmount: the function given to removeListener
\* is bound anew, so it is not the one that was added.
componentWillUnmountOtherHandler ==
  /\ call = None
  /\ phase = "mounted"
  /\ phase' = "unmounted"
  /\ ipcListeners' = removeListener(ipcListeners, "this.onLogDataUpdate.bind(this)")
  /\ UNCHANGED << call, state, _onSearch, prefs, loadVars, rendered, ipcQueue,
                  replayRequested, history >>

\* componentWillUnmount()
componentWillUnmount ==
  /\ call = None
  /\ phase = "mounted"
  /\ phase' = "unmounted"
  /\ ipcListeners' = removeListener(ipcListeners, BoundOnLogDataUpdate)
  /\ UNCHANGED << call, state, _onSearch, prefs, loadVars, rendered, ipcQueue,
                  replayRequested, call, history >>

\* The game count render() hands to the footer.
GameCount ==
  IF state.central # None THEN Some(Len(state.central[1].collection.games))
  ELSE None

\* A mutant of render: the flag is read and left armed.
renderKeepsFlag ==
  /\ call = None
  /\ phase \in { "constructed", "mounted" }
  /\ phase' = IF phase = "constructed" THEN "rendered" ELSE phase
  /\ rendered' = Some([ redirect |-> _onSearch,
                        search |-> state.search,
                        gameCount |-> GameCount ])
  /\ _onSearch' = _onSearch
  /\ history' = [ history EXCEPT
                    !.redirects = @ + (IF _onSearch THEN 1 ELSE 0) ]
  /\ UNCHANGED << call, state, prefs, loadVars, logVars >>

\* render(): the first one follows construction, the later ones happen
\* while the component is mounted.
render ==
  /\ call = None
  /\ phase \in { "constructed", "mounted" }
  /\ phase' = IF phase = "constructed" THEN "rendered" ELSE phase
  /\ rendered' = Some([ redirect |-> _onSearch,
                        search |-> state.search,
                        gameCount |-> GameCount ])
  /\ _onSearch' = FALSE
  /\ history' = [ history EXCEPT
                    !.redirects = @ + (IF _onSearch THEN 1 ELSE 0) ]
  /\ UNCHANGED << call, state, prefs, loadVars, logVars >>

(***************************************************************************)
(* User events, delivered by the header and the footer while mounted.      *)
(***************************************************************************)
\* A mutant of onSearch: the gate is armed and the payload is not stored.
onSearchStaleState(event) ==
  /\ call = None
  /\ phase = "mounted"
  /\ history.searches < MaxSearches
  /\ _onSearch' = TRUE
  /\ state' = state
  /\ history' = [ history EXCEPT
                    !.searches = @ + 1,
                    !.overlapping = @ + (IF _onSearch THEN 1 ELSE 0),
                    !.lastSearch = Some(event) ]
  /\ UNCHANGED << call, prefs, loadVars, phase, rendered, logVars >>

\* onSearch(event)
onSearch(event) ==
  /\ call = None
  /\ phase = "mounted"
  /\ history.searches < MaxSearches
  /\ _onSearch' = TRUE
  /\ state' = setState([ search |-> Some(event) ])
  /\ history' = [ history EXCEPT
                    !.searches = @ + 1,
                    !.overlapping = @ + (IF _onSearch THEN 1 ELSE 0),
                    !.lastSearch = Some(event) ]
  /\ UNCHANGED << call, prefs, loadVars, phase, rendered, logVars >>

\* A mutant of onOrderChange: a change of order arms the search gate too.
onOrderChangeArms(event) ==
  /\ call = None
  /\ phase = "mounted"
  /\ _onSearch' = TRUE
  /\ state' = setState([ order |-> Some(event) ])
  /\ UNCHANGED << call, prefs, loadVars, phase, rendered, logVars, history >>

\* onOrderChange(event)
onOrderChange(event) ==
  /\ call = None
  /\ phase = "mounted"
  /\ state' = setState([ order |-> Some(event) ])
  /\ UNCHANGED << call, _onSearch, prefs, loadVars, phase, rendered, logVars, history >>

\* A mutant of onScaleSliderChange: the write to the store is batched away.
onScaleSliderChangeNotPersisted(value) ==
  /\ call = None
  /\ phase = "mounted"
  /\ state' = setState([ gameScale |-> value ])
  /\ prefs' = prefs
  /\ history' = [ history EXCEPT !.lastSet.gameScale = Some(value) ]
  /\ UNCHANGED << call, _onSearch, loadVars, phase, rendered, logVars >>

\* onScaleSliderChange(value)
onScaleSliderChange(value) ==
  /\ call = None
  /\ phase = "mounted"
  /\ state' = setState([ gameScale |-> value ])
  /\ prefs' = [ prefs EXCEPT !.browsePageGameScale = value ]
  /\ history' = [ history EXCEPT !.lastSet.gameScale = Some(value) ]
  /\ UNCHANGED << call, _onSearch, loadVars, phase, rendered, logVars >>

\* A mutant of onLayoutSelectorChange: only the store takes the value.
onLayoutSelectorChangeStoreOnly(value) ==
  /\ call = None
  /\ phase = "mounted"
  /\ state' = state
  /\ prefs' = [ prefs EXCEPT !.browsePageLayout = value ]
  /\ history' = [ history EXCEPT !.lastSet.gameLayout = Some(value) ]
  /\ UNCHANGED << call, _onSearch, loadVars, phase, rendered, logVars >>

\* onLayoutSelectorChange(value)
onLayoutSelectorChange(value) ==
  /\ call = None
  /\ phase = "mounted"
  /\ state' = setState([ gameLayout |-> value ])
  /\ prefs' = [ prefs EXCEPT !.browsePageLayout = value ]
  /\ history' = [ history EXCEPT !.lastSet.gameLayout = Some(value) ]
  /\ UNCHANGED << call, _onSearch, loadVars, phase, rendered, logVars >>

\* A mutant of onExtremeChange: the scale is put back to the stored one.
onExtremeChangeResetsScale(isChecked) ==
  /\ call = None
  /\ phase = "mounted"
  /\ state' = setState([ showExtreme |-> isChecked,
                         gameScale |-> CHOOSE v \in GameScales : v # state.gameScale ])
  /\ prefs' = [ prefs EXCEPT !.browsePageShowExtreme = isChecked ]
  /\ history' = [ history EXCEPT !.lastSet.showExtreme = Some(isChecked) ]
  /\ UNCHANGED << call, _onSearch, loadVars, phase, rendered, logVars >>

\* onExtremeChange(isChecked)
onExtremeChange(isChecked) ==
  /\ call = None
  /\ phase = "mounted"
  /\ state' = setState([ showExtreme |-> isChecked ])
  /\ prefs' = [ prefs EXCEPT !.browsePageShowExtreme = isChecked ]
  /\ history' = [ history EXCEPT !.lastSet.showExtreme = Some(isChecked) ]
  /\ UNCHANGED << call, _onSearch, loadVars, phase, rendered, logVars >>

(***************************************************************************)
(* The preference setters statement by statement: the call of setState,    *)
(* then the write to the store.  Nothing else runs while a setter runs.    *)
(***************************************************************************)
\* A mutant of onScaleSliderChangeSetState: the store is written first.
onScaleSliderChangeStoreFirst(value) ==
  /\ call = None
  /\ phase = "mounted"
  /\ prefs' = [ prefs EXCEPT !.browsePageGameScale = value ]
  /\ call' = Some([ handler |-> "onScaleSliderChange", value |-> value ])
  /\ UNCHANGED << state, _onSearch, loadVars, phase, rendered, logVars,
                  history >>

\* onScaleSliderChange(value): this.setState({ gameScale: value })
onScaleSliderChangeSetState(value) ==
  /\ call = None
  /\ phase = "mounted"
  /\ state' = setState([ gameScale |-> value ])
  /\ call' = Some([ handler |-> "onScaleSliderChange", value |-> value ])
  /\ UNCHANGED << prefs, _onSearch, loadVars, phase, rendered, logVars,
                  history >>

\* onScaleSliderChange(value): ...preferences.data.browsePageGameScale = value
onScaleSliderChangeWriteStore ==
  /\ call # None
  /\ call[1].handler = "onScaleSliderChange"
  /\ prefs' = [ prefs EXCEPT !.browsePageGameScale = call[1].value ]
  /\ history' = [ history EXCEPT !.lastSet.gameScale = Some(call[1].value) ]
  /\ call' = None
  /\ UNCHANGED << state, _onSearch, loadVars, phase, rendered, logVars >>

\* onLayoutSelectorChange(value): this.setState({ gameLayout: value })
onLayoutSelectorChangeSetState(value) ==
  /\ call = None
  /\ phase = "mounted"
  /\ state' = setState([ gameLayout |-> value ])
  /\ call' = Some([ handler |-> "onLayoutSelectorChange", value |-> value ])
  /\ UNCHANGED << prefs, _onSearch, loadVars, phase, rendered, logVars,
                  history >>

\* onLayoutSelectorChange(value): ...preferences.data.browsePageLayout = value
onLayoutSelectorChangeWriteStore ==
  /\ call # None
  /\ call[1].handler = "onLayoutSelectorChange"
  /\ prefs' = [ prefs EXCEPT !.browsePageLayout = call[1].value ]
  /\ history' = [ history EXCEPT !.lastSet.gameLayout = Some(call[1].value) ]
  /\ call' = None
  /\ UNCHANGED << state, _onSearch, loadVars, phase, rendered, logVars >>

\* onExtremeChange(isChecked): this.setState({ showExtreme: isChecked })
onExtremeChangeSetState(isChecked) ==
  /\ call = None
  /\ phase = "mounted"
  /\ state' = setState([ showExtreme |-> isChecked ])
  /\ call' = Some([ handler |-> "onExtremeChange", value |-> isChecked ])
  /\ UNCHANGED << prefs, _onSearch, loadVars, phase, rendered, logVars,
                  history >>

\* onExtremeChange(isChecked): ...preferences.data.browsePageShowExtreme = isChecked
onExtremeChangeWriteStore ==
  /\ call # None
  /\ call[1].handler = "onExtremeChange"
  /\ prefs' = [ prefs EXCEPT !.browsePageShowExtreme = call[1].value ]
  /\ history' = [ history EXCEPT !.lastSet.showExtreme = Some(call[1].value) ]
  /\ call' = None
  /\ UNCHANGED << state, _onSearch, loadVars, phase, rendered, logVars >>

(***************************************************************************)
(* The log channel: the main process pushes full snapshots of the log,     *)
(* and answers resendLogDataUpdate() with one more.                        *)
(***************************************************************************)
\* The main process logs something and pushes the full log; a message in
\* flight says whether it answers a resendLogDataUpdate().
MainPushesLog ==
  /\ call = None
  /\ Len(ipcQueue) < MaxInFlight
  /\ \E fullLog \in FullLogs :
       ipcQueue' = Append(ipcQueue, [ fullLog |-> fullLog, replay |-> FALSE ])
  /\ UNCHANGED << call, state, _onSearch, prefs, loadVars, phase, rendered,
                  ipcListeners, replayRequested, history >>

\* The main process answers resendLogDataUpdate().
MainResendsLog ==
  /\ call = None
  /\ replayRequested
  /\ Len(ipcQueue) < MaxInFlight
  /\ replayRequested' = FALSE
  /\ \E fullLog \in FullLogs :
       ipcQueue' = Append(ipcQueue, [ fullLog |-> fullLog, replay |-> TRUE ])
  /\ UNCHANGED << call, state, _onSearch, prefs, loadVars, phase, rendered,
                  ipcListeners, history >>

\* ipcRenderer emits 'log-data-update' to the listeners registered now.
DeliverLogDataUpdate ==
  /\ call = None
  /\ ipcQueue # <<>>
  /\ ipcQueue' = Tail(ipcQueue)
  /\ IF ipcListeners # <<>>
     THEN /\ state' = onLogDataUpdate("log-data-update", Head(ipcQueue).fullLog)
          /\ history' = [ history EXCEPT
                            !.delivered = Some(Head(ipcQueue).fullLog),
                            !.deliveredBefore = history.delivered,
                            !.replaysDelivered =
                               @ + (IF Head(ipcQueue).replay THEN 1 ELSE 0) ]
     ELSE /\ state' = state
          /\ history' = [ history EXCEPT
                            !.droppedBeforeMount = @ \/ phase # "unmounted",
                            !.droppedAfterUnmount = @ \/ phase = "unmounted" ]
  /\ UNCHANGED << call, _onSearch, prefs, loadVars, phase, rendered,
                  ipcListeners, replayRequested >>

\* The sum of a sequence of numbers.
RECURSIVE Sum(_)
Sum(s) == IF s = <<>> THEN 0 ELSE Head(s) + Sum(Tail(s))

(***************************************************************************)
(* Specifications.                                                         *)
(***************************************************************************)
Search == \E event \in SearchEvents : onSearch(event)
OrderChange == \E event \in OrderEvents : onOrderChange(event)
ScaleSliderChange == \E value \in GameScales : onScaleSliderChange(value)
LayoutSelectorChange == \E value \in BrowsePageLayouts : onLayoutSelectorChange(value)
ExtremeChange == \E isChecked \in BOOLEAN : onExtremeChange(isChecked)

\* The load chain with the lifecycle and an unrelated event.
LoadNext ==
  \/ Stage1Resolved
  \/ Stage1Rejected
  \/ Stage2Resolved
  \/ Stage2Rejected
  \/ render
  \/ componentDidMount
  \/ componentWillUnmount
  \/ OrderChange

LoadSpec == Init /\ [][LoadNext]_vars

\* Every fetch that was started settles.
LoadFairSpec ==
  /\ LoadSpec
  /\ WF_vars(Stage1Resolved \/ Stage1Rejected)
  /\ WF_vars(Stage2Resolved \/ Stage2Rejected)

\* The preference setters among the other events.
PrefsNext ==
  \/ ScaleSliderChange
  \/ LayoutSelectorChange
  \/ ExtremeChange
  \/ render
  \/ componentDidMount
  \/ componentWillUnmount
  \/ Search
  \/ OrderChange
  \/ Stage1Rejected

PrefsSpec == Init /\ [][PrefsNext]_vars

\* The preference setters statement by statement, among other events.
PrefsStepsNext ==
  \/ \E value \in GameScales : onScaleSliderChangeSetState(value)
  \/ onScaleSliderChangeWriteStore
  \/ \E value \in BrowsePageLayouts : onLayoutSelectorChangeSetState(value)
  \/ onLayoutSelectorChangeWriteStore
  \/ \E isChecked \in BOOLEAN : onExtremeChangeSetState(isChecked)
  \/ onExtremeChangeWriteStore
  \/ render
  \/ componentDidMount
  \/ componentWillUnmount
  \/ Search
  \/ OrderChange
  \/ Stage1Rejected

PrefsStepsSpec == Init /\ [][PrefsStepsNext]_vars

\* The search gate among the other events.
SearchNext ==
  \/ Search
  \/ render
  \/ componentDidMount
  \/ componentWillUnmount
  \/ OrderChange
  \/ ExtremeChange
  \/ Stage1Rejected
  \/ MainPushesLog
  \/ DeliverLogDataUpdate

SearchSpec == Init /\ [][SearchNext]_vars

\* The log channel with the lifecycle.
LogNext ==
  \/ MainPushesLog
  \/ MainResendsLog
  \/ DeliverLogDataUpdate
  \/ render
  \/ componentDidMount
  \/ componentWillUnmount
  \/ OrderChange
  \/ Stage1Rejected

LogSpec == Init /\ [][LogNext]_vars

\* Every handler of the class among the others: one platform file, a first
\* search, one message in flight.
AppNext ==
  \/ Stage1Resolved /\ Len(platformFilenames') = 1
  \/ Stage1Rejected
  \/ Stage2Resolved /\ Sum(history'.counts) \in { 0, MaxGames }
  \/ Stage2Rejected
  \/ render
  \/ componentDidMount
  \/ componentWillUnmount
  \/ Search /\ history.searches = 0
  \/ OrderChange
  \/ ScaleSliderChange
  \/ LayoutSelectorChange
  \/ ExtremeChange
  \/ MainPushesLog /\ ipcQueue = <<>> /\ ipcQueue'[1].fullLog = << "line1" >>
  \/ DeliverLogDataUpdate

AppSpec == Init /\ [][AppNext]_vars

(***************************************************************************)
(* Definitions the properties use.                                         *)
(***************************************************************************)
\* The load chain has nothing left to run.
ChainSettled ==
  stage1 = "rejected" \/ stage2 \in { "resolved", "rejected" }

\* The games of central's collection (none while central is undefined).
CentralGames ==
  IF state.central = None THEN <<>> ELSE state.central[1].collection.games

\* The platform a platform file describes: its name up to the first dot.
PlatformOfSource(filename) ==
  LET dots == { i \in 1..Len(filename) : filename[i] = "." }
      stop == IF dots = {} THEN Len(filename) + 1
              ELSE CHOOSE i \in dots : \A j \in dots : i <= j
  IN  SubSeq(filename, 1, stop - 1)

\* The place of a platform file in the listing stage 1 resolved with.
IndexIn(listing, filename) ==
  CHOOSE i \in 1..Len(listing) : listing[i] = filename

(***************************************************************************)
(* The load chain (LoadSpec, LoadFairSpec).                                *)
(***************************************************************************)
\* C1: whenever stage 1 or stage 2 has failed, central is defined and its
\* collection is a defined sequence of no games, also when platform files
\* had parsed before the failure of stage 2.
C1_FailureGivesEmptyCollection ==
  (stage1 = "rejected" \/ stage2 = "rejected") =>
    /\ state.central # None
    /\ DOMAIN state.central[1].collection = { "games" }
    /\ Len(state.central[1].collection.games) = 0

C1_Witness ==
  /\ stage2 = "rejected"
  /\ history.parsedBeforeFailure > 0
  /\ state.central # None

\* C2: whenever central is defined, the platform of every game of its
\* collection is registered in the image index central refers to.
C2_AtomicJoin ==
  state.central # None =>
    /\ state.central[1].gameImages = GameImagesRef
    /\ \A k \in 1..Len(CentralGames) :
         PlatformOfSource(CentralGames[k].source) \in gameImages.platforms

C2_Witness ==
  /\ state.central # None
  /\ \E k \in 1..Len(CentralGames) :
       CentralGames[k].source = <<"Flash", ".", "old", ".", "xml">>
  /\ \E k \in 1..Len(CentralGames) :
       CentralGames[k].source = <<"HTML5", ".", "xml">>

\* C3: when both stages have succeeded, central's collection holds as many
\* games as the platform files hold together, each file's games exactly
\* once, file after file in the order stage 1 resolved the names and in
\* file order within one file.
C3_CollectionIsSumInOrder ==
  stage2 = "resolved" =>
    /\ state.central # None
    /\ Len(CentralGames) = Sum(history.counts)
    /\ \A i \in 1..Len(platformFilenames) :
         Cardinality({ k \in 1..Len(CentralGames) :
                         CentralGames[k].source = platformFilenames[i] })
           = history.counts[i]
    /\ \A k, l \in 1..Len(CentralGames) :
         k < l =>
           LET a == IndexIn(platformFilenames, CentralGames[k].source)
               b == IndexIn(platformFilenames, CentralGames[l].source)
           IN  a < b \/ (a = b /\ CentralGames[k].n < CentralGames[l].n)

C3_Witness ==
  /\ stage2 = "resolved"
  /\ Len(platformFilenames) = 2
  /\ history.counts = << 3, 5 >>
  /\ Len(CentralGames) = 8

\* C4: onDataLoaded has run exactly once when the load chain has settled
\* (by either failure or by success) and not at all before.
C4_AssembledExactlyOnce ==
  history.onDataLoaded = IF ChainSettled THEN 1 ELSE 0

C4_Witness ==
  /\ stage2 = "rejected"
  /\ history.onDataLoaded = 1
  /\ phase = "mounted"

\* C5: central is undefined at construction; when every started fetch
\* settles, central becomes defined; once defined it stays defined.
C5_CentralEventuallyDefined ==
  /\ state.central = None
  /\ <>(state.central # None)
  /\ [][state.central # None => state'.central # None]_vars

C5_Witness ==
  /\ state.central # None
  /\ stage2 = "resolved"
  /\ phase = "mounted"
  /\ rendered # None
  /\ rendered[1].gameCount = Some(Len(CentralGames))

\* C6: when stage 1 has rejected, stage 2 was never started, addPlatforms
\* was never called, central's collection has no games and the image index
\* has no platform.
C6_Stage1FailureSkipsStage2 ==
  stage1 = "rejected" =>
    /\ stage2 = "notStarted"
    /\ history.fetchPlatforms = 0
    /\ history.addPlatforms = 0
    /\ state.central # None
    /\ Len(CentralGames) = 0
    /\ gameImages.platforms = {}

C6_Witness ==
  /\ stage1 = "rejected"
  /\ state.central # None
  /\ rendered # None
  /\ rendered[1].gameCount = Some(0)

(***************************************************************************)
(* The preferences (PrefsSpec).                                            *)
(***************************************************************************)
\* C7: the persisted value of every field that was set is the last value
\* set for it.
C7_LastWriteWins ==
  /\ history.lastSet.gameScale # None =>
       prefs.browsePageGameScale = history.lastSet.gameScale[1]
  /\ history.lastSet.gameLayout # None =>
       prefs.browsePageLayout = history.lastSet.gameLayout[1]
  /\ history.lastSet.showExtreme # None =>
       prefs.browsePageShowExtreme = history.lastSet.showExtreme[1]

C7_Witness ==
  /\ history.lastSet.gameScale # None
  /\ history.lastSet.gameLayout # None
  /\ history.lastSet.showExtreme # None
  /\ state.central # None
  /\ state.search # None

\* C8: after a set of a field, the value of the field in this.state and
\* its persisted value are the same.
C8_WriteThrough ==
  /\ history.lastSet.gameScale # None =>
       state.gameScale = prefs.browsePageGameScale
  /\ history.lastSet.gameLayout # None =>
       state.gameLayout = prefs.browsePageLayout
  /\ history.lastSet.showExtreme # None =>
       state.showExtreme = prefs.browsePageShowExtreme

C8_Witness ==
  /\ history.lastSet.gameScale = Some(15)
  /\ state.gameScale = 15
  /\ prefs.browsePageGameScale = 15

(***************************************************************************)
(* The search gate (SearchSpec).                                           *)
(***************************************************************************)
\* C9: the redirects emitted so far are one for every submission that was
\* not made while an earlier one still waited for its render, less the one
\* still waiting for the next render; with no such overlapping submission
\* that is exactly one redirect for every submission, emitted by the
\* render that follows it and by no later one.
C9_OneRedirectPerSearch ==
  /\ history.redirects + (IF _onSearch THEN 1 ELSE 0)
       = history.searches - history.overlapping
  /\ history.overlapping = 0 =>
       history.redirects + (IF _onSearch THEN 1 ELSE 0) = history.searches

C9_Witness ==
  /\ history.searches = 2
  /\ history.overlapping = 0
  /\ history.redirects = 2
  /\ rendered # None
  /\ ~ rendered[1].redirect

(***************************************************************************)
(* The log channel (LogSpec).                                              *)
(***************************************************************************)
\* C10: the displayed log is the snapshot delivered last, and the empty
\* text before any delivery.
C10_LogIsLastSnapshot ==
  state.logData = IF history.delivered = None THEN <<>> ELSE history.delivered[1]

C10_Witness ==
  /\ history.deliveredBefore = Some(<< "line1" >>)
  /\ history.delivered = Some(<< "line2" >>)
  /\ state.logData = << "line2" >>

\* C11: once the component is unmounted, no step changes the displayed log
\* and no snapshot is delivered to the handler.
C11_NoSnapshotAfterDetach ==
  [][phase = "unmounted" =>
       /\ state'.logData = state.logData
       /\ history'.delivered = history.delivered
       /\ history'.deliveredBefore = history.deliveredBefore]_vars

C11_Witness ==
  /\ phase = "unmounted"
  /\ history.droppedAfterUnmount
  /\ history.delivered # None
  /\ state.logData = history.delivered[1]

\* The answers to resendLogDataUpdate() that are in flight.
ReplaysInFlight ==
  { i \in 1..Len(ipcQueue) : ipcQueue[i].replay }

\* C12: the replay is requested by componentDidMount alone, with the handler
\* already subscribed; at most one answer to it is delivered to the handler,
\* and exactly one once the component is mounted and no request or answer is
\* under way, also when snapshots were pushed and lost before the
\* subscription.
C12_OneInitialSnapshot ==
  /\ (replayRequested \/ ReplaysInFlight # {} \/ history.replaysDelivered > 0)
       => phase \in { "mounted", "unmounted" }
  /\ (replayRequested /\ phase = "mounted") => ipcListeners # <<>>
  /\ history.replaysDelivered <= 1
  /\ (phase = "mounted" /\ ~ replayRequested /\ ReplaysInFlight = {})
       => history.replaysDelivered = 1

C12_Witness ==
  /\ phase = "mounted"
  /\ history.droppedBeforeMount
  /\ history.replaysDelivered = 1
  /\ history.deliveredBefore = None
  /\ state.logData = history.delivered[1]

\* C16: exactly one log handler, the one bound in the constructor, is
\* registered while the component is mounted, and none before the mount and
\* after the unmount.
C16_SubscriptionPairedWithMount ==
  /\ Len(ipcListeners) = IF phase = "mounted" THEN 1 ELSE 0
  /\ \A i \in 1..Len(ipcListeners) : ipcListeners[i] = BoundOnLogDataUpdate

C16_Witness ==
  /\ phase = "unmounted"
  /\ ipcListeners = <<>>
  /\ history.replaysDelivered = 1

\* C13: the gate goes from idle to armed only in a step that is a search
\* submission, and a render that finds it armed leaves it idle.
C13_GateArmedOnlyBySearch ==
  [][/\ (~ _onSearch /\ _onSearch') => history'.searches = history.searches + 1
     /\ history'.redirects # history.redirects => (_onSearch /\ ~ _onSearch')]_vars

C13_Witness ==
  /\ history.searches = 1
  /\ history.redirects = 1
  /\ ~ _onSearch
  /\ state.order # None
  /\ state.logData # <<>>
  /\ state.central # None
  /\ history.lastSet.showExtreme # None

\* C20: a render that emits the redirect hands the router the payload of
\* the most recent search submission.
C20_RedirectCarriesLastSearch ==
  [][history'.redirects # history.redirects =>
       /\ rendered' # None
       /\ rendered'[1].redirect
       /\ rendered'[1].search = history.lastSearch
       /\ rendered'[1].search # None]_vars

C20_Witness ==
  /\ rendered # None
  /\ rendered[1].redirect
  /\ rendered[1].search = Some("search2")
  /\ history.overlapping = 1
  /\ history.redirects = 1
  /\ ~ _onSearch

\* The setter that is running, if any.
Running(handler) == call # None /\ call[1].handler = handler

\* C14: while a setter runs, this.state already holds the value it was
\* called with; the store differs from this.state only while the setter of
\* that field runs, so the store never holds the new value before
\* this.state does.
C14_MemoryBeforeStore ==
  /\ Running("onScaleSliderChange") => state.gameScale = call[1].value
  /\ Running("onLayoutSelectorChange") => state.gameLayout = call[1].value
  /\ Running("onExtremeChange") => state.showExtreme = call[1].value
  /\ state.gameScale # prefs.browsePageGameScale
       => Running("onScaleSliderChange")
  /\ state.gameLayout # prefs.browsePageLayout
       => Running("onLayoutSelectorChange")
  /\ state.showExtreme # prefs.browsePageShowExtreme
       => Running("onExtremeChange")

C14_Witness ==
  /\ Running("onScaleSliderChange")
  /\ state.gameScale = 15
  /\ prefs.browsePageGameScale = 10
  /\ history.lastSet.gameLayout # None

\* The place of a call in the record of calls (0 when it was not made).
PlaceOf(name) ==
  IF \E i \in 1..Len(history.trace) : history.trace[i] = name
  THEN CHOOSE i \in 1..Len(history.trace) : history.trace[i] = name
  ELSE 0

\* C15: addPlatforms is called at most once, only when stage 1 has
\* resolved, before fetchPlatforms is called and so before onDataLoaded;
\* stage 2 is started only when stage 1 has resolved; the image index of
\* central is the object created in the constructor.
C15_RegistrationBetweenStages ==
  /\ history.addPlatforms <= 1
  /\ history.addPlatforms = 1 => stage1 = "resolved"
  /\ stage2 # "notStarted" =>
       /\ stage1 = "resolved"
       /\ 0 < PlaceOf("addPlatforms")
       /\ PlaceOf("addPlatforms") < PlaceOf("fetchPlatforms")
  /\ (stage2 \in { "resolved", "rejected" }) =>
       PlaceOf("fetchPlatforms") < PlaceOf("onDataLoaded")
  /\ gameImages.platforms # {} => history.addPlatforms = 1
  /\ state.central # None => state.central[1].gameImages = GameImagesRef

C15_Witness ==
  /\ history.trace = << "fetchPlatformFilenames", "addPlatforms",
                        "fetchPlatforms", "onDataLoaded" >>
  /\ Len(platformFilenames) = 2
  /\ gameImages.platforms = { << "Flash" >> }
  /\ Len(CentralGames) = 2

\* C17: whenever the load chain has settled central is defined, also when
\* the component was unmounted before; stage 2 is started whenever stage 1
\* has resolved, mounted or not.
C17_NoCancellation ==
  /\ ChainSettled => state.central # None
  /\ stage1 = "resolved" => stage2 # "notStarted"
  /\ history.loadedUnmounted =>
       /\ phase = "unmounted"
       /\ state.central # None
       /\ stage2 = "resolved" => Len(CentralGames) = Sum(history.counts)

C17_Witness ==
  /\ history.loadedUnmounted
  /\ stage2 = "resolved"
  /\ rendered # None
  /\ rendered[1].gameCount = None
  /\ Len(CentralGames) = 2

\* C18: fetchPlatformFilenames is called once, and fetchPlatforms once when
\* stage 1 has resolved and never otherwise, whatever the outcome.
C18_NoRetry ==
  /\ history.fetchPlatformFilenames = 1
  /\ history.fetchPlatforms = IF stage1 = "resolved" THEN 1 ELSE 0
  /\ history.fetchPlatforms <= 1

C18_Witness ==
  /\ stage2 = "rejected"
  /\ history.fetchPlatformFilenames = 1
  /\ history.fetchPlatforms = 1
  /\ history.trace = << "fetchPlatformFilenames", "addPlatforms",
                        "fetchPlatforms", "onDataLoaded" >>

\* The fields of this.state, and of the stored preferences, a step changes.
Changed == { f \in DOMAIN state : state'[f] # state[f] }
PrefsChanged == { f \in DOMAIN prefs : prefs'[f] # prefs[f] }

\* A step of a preference setter changes its field, in memory and in the
\* store, and nothing else.
SetterFrame(setter, field, stored) ==
  /\ history'.lastSet[setter] # history.lastSet[setter] =>
       /\ Changed \subseteq { field }
       /\ PrefsChanged \subseteq { stored }
       /\ _onSearch' = _onSearch
  /\ (field \in Changed \/ stored \in PrefsChanged) =>
       /\ history'.lastSet[setter] = Some(state'[field])
       /\ prefs'[stored] = state'[field]

\* What each handler changes, and what may change each part.
HandlerFrame ==
  /\ history'.onDataLoaded # history.onDataLoaded =>
       Changed \subseteq { "central" } /\ PrefsChanged = {} /\ _onSearch' = _onSearch
  /\ history'.searches # history.searches =>
       Changed \subseteq { "search" } /\ PrefsChanged = {} /\ _onSearch'
  /\ Len(ipcQueue') < Len(ipcQueue) =>
       Changed \subseteq { "logData" } /\ PrefsChanged = {} /\ _onSearch' = _onSearch
  /\ "order" \in Changed =>
       Changed = { "order" } /\ PrefsChanged = {} /\ _onSearch' = _onSearch
  /\ SetterFrame("gameScale", "gameScale", "browsePageGameScale")
  /\ SetterFrame("gameLayout", "gameLayout", "browsePageLayout")
  /\ SetterFrame("showExtreme", "showExtreme", "browsePageShowExtreme")
  /\ "central" \in Changed => history'.onDataLoaded = history.onDataLoaded + 1
  /\ "search" \in Changed => history'.searches = history.searches + 1
  /\ "logData" \in Changed => Len(ipcQueue') < Len(ipcQueue)
  /\ (phase' # phase \/ rendered' # rendered) => Changed = {} /\ PrefsChanged = {}
  /\ Changed \subseteq { "central", "search", "order", "logData",
                         "gameScale", "gameLayout", "showExtreme" }

\* The central state the outcome of the load chain gives.
CentralOfChain ==
  [ collection |-> IF stage2 = "resolved"
                   THEN [ games |-> fetchPlatforms(platformFilenames, history.counts) ]
                   ELSE [ games |-> <<>> ],
    flashpointPath |-> state.config.flashpointPath,
    gameImages |-> GameImagesRef ]

\* C19: every handler changes its own part of the state and no other;
\* config never changes; central, once set, is what the outcome of the load
\* chain gives, whatever events ran in between.
C19_HandlersKeepToTheirPart ==
  /\ [][HandlerFrame]_vars
  /\ [](state.config \in Configs /\ state.useCustomTitlebar = state.config.useCustomTitlebar)
  /\ [](state.central # None => state.central[1] = CentralOfChain)

C19_Witness ==
  /\ stage2 = "resolved"
  /\ Len(CentralGames) = MaxGames
  /\ state.search # None
  /\ state.order # None
  /\ state.logData # <<>>
  /\ history.lastSet.gameScale # None
  /\ history.lastSet.gameLayout # None
  /\ history.lastSet.showExtreme # None
  /\ rendered # None
  /\ rendered[1].gameCount = None

====
